---- MODULE Spec2Model ----
(***************************************************************************)
(* memprobe: src/src/main.rs.  A single sequential program that parses its *)
(* arguments, opens a sink (stdout or a truncated file), writes a CSV      *)
(* header through a buffering csv::Writer and then, while the OS reports   *)
(* the target process as existing, writes one row per tick, flushes and    *)
(* sleeps.                                                                 *)
(*                                                                         *)
(* The csv::Writer keeps the records it accepts in an internal buffer      *)
(* (buf) until flush() hands them to the underlying writer; the writer is  *)
(* flushed once more, with the error ignored, when it is dropped at the    *)
(* end of main.  A row is "written" once write_record accepted it and      *)
(* "durable" once it has reached the file or the standard output.          *)
(***************************************************************************)
EXTENDS Integers, Sequences, FiniteSets

VARIABLES
    args,        \* Args: [pid, interval_ms, stdout, output_file]
    pc,          \* position in main
    ret,         \* what main returned: "none", "Ok", "Err", "Usage"
    exitCode,    \* exit code of the program, -1 while it runs
    alive,       \* the OS has a process with the target pid
    sysProc,     \* System's entry for the pid after the last refresh
    cur,         \* the process found by system.process(pid) in this tick
    fs,          \* the file system: path -> [exists, lines]
    stdoutOut,   \* what reached the standard output
    sink,        \* the underlying writer: "none", "stdout", "file"
    path,        \* the path of the opened file
    buf,         \* csv::Writer's internal buffer (lines not yet flushed)
    \* history variables, read by the properties only
    fs0,         \* the file system before the program started
    written,     \* every line write_record accepted, in order
    samples,     \* the readings of the ticks that found the process
    everFound,   \* some refresh_process call returned true
    ioFailed,    \* some operation on the sink failed
    loopStarted, \* the loop performed its first refresh
    lastFound,   \* the lookup of the last tick returned the process
    rowsSince,   \* rows written since the last loop refresh
    sleepsSince, \* sleeps since the last loop refresh
    sleptSince   \* milliseconds slept since the last loop refresh

vars == <<args, pc, ret, exitCode, alive, sysProc, cur, fs, stdoutOut, sink,
          path, buf, fs0, written, samples, everFound, ioFailed, loopStarted,
          lastFound, rowsSince, sleepsSince, sleptSince>>

progVars == <<args, pc, ret, exitCode, sysProc, cur, fs, stdoutOut, sink,
              path, buf, fs0, written, samples, everFound, ioFailed,
              loopStarted, lastFound, rowsSince, sleepsSince, sleptSince>>

(***************************************************************************)
(* Bounds and input sets.                                                  *)
(***************************************************************************)
MaxTicks == 2                      \* data rows sampled in one run

DefaultIntervalMs == 250

Pids == {7, 42}
Intervals == {0, DefaultIntervalMs}
ExplicitPath == "out.csv"
NoPath == "<none>"
OutputFiles == {NoPath, ExplicitPath}
Paths == {"out.csv", "memprobe-7.csv", "memprobe-42.csv"}

\* (resident, virtual) readings the OS may report
Readings == {<<0, 10>>, <<12, 305>>}
NoProc == <<>>

AbsentFile == [exists |-> FALSE, lines |-> <<>>]
OldFile == [exists |-> TRUE, lines |-> <<"RES,VIRT", "1,1">>]

(***************************************************************************)
(* Pure helpers.                                                           *)
(***************************************************************************)
Digit(d) ==
    CASE d = 0 -> "0" [] d = 1 -> "1" [] d = 2 -> "2" [] d = 3 -> "3"
      [] d = 4 -> "4" [] d = 5 -> "5" [] d = 6 -> "6" [] d = 7 -> "7"
      [] d = 8 -> "8" [] d = 9 -> "9"

RECURSIVE to_string(_)
\* Display of an unsigned integer: its decimal digits, most significant first
to_string(n) ==
    IF n < 10 THEN Digit(n) ELSE to_string(n \div 10) \o Digit(n % 10)

\* csv serialisation of a two-field record: fields joined by a comma
Record(a, b) == a \o "," \o b

HeaderRecord == Record("RES", "VIRT")

\* format!("memprobe-{}.csv", pid)
DefaultPath(pid) == "memprobe-" \o to_string(pid) \o ".csv"

\* output_file.unwrap_or_else(|| default path)
TargetPath(pid, output_file) ==
    IF output_file = NoPath THEN DefaultPath(pid) ELSE output_file

\* variant: the conflicts_with attribute is missing
Conflict_Unchecked(a) == FALSE

\* #[arg(long, conflicts_with = "output_file")] on stdout
Conflict(a) == a.stdout /\ a.output_file # NoPath

\* variant: the file is opened without truncate(true)
Truncated_Kept(f, p) == [f EXCEPT ![p] = [exists |-> TRUE, lines |-> f[p].lines]]

\* OpenOptions::new().create(true).write(true).truncate(true).open(path)
Truncated(f, p) == [f EXCEPT ![p] = [exists |-> TRUE, lines |-> <<>>]]

\* what has reached the underlying medium of the current sink
Durable ==
    IF sink = "stdout" THEN stdoutOut
    ELSE IF sink = "file" THEN fs[path].lines
    ELSE <<>>

IsPrefix(s, t) == Len(s) <= Len(t) /\ SubSeq(t, 1, Len(s)) = s

(***************************************************************************)
(* Initial state: the arguments, the file system and the target process    *)
(* as the program finds them.                                              *)
(***************************************************************************)
Init ==
    /\ args \in [pid : Pids, interval_ms : Intervals, stdout : BOOLEAN,
                 output_file : OutputFiles]
    /\ pc = "parse"
    /\ ret = "none"
    /\ exitCode = -1
    /\ alive \in BOOLEAN
    /\ sysProc = NoProc
    /\ cur = NoProc
    /\ fs \in [Paths -> {AbsentFile, OldFile}]
    /\ stdoutOut = <<>>
    /\ sink = "none"
    /\ path = NoPath
    /\ buf = <<>>
    /\ fs0 = fs
    /\ written = <<>>
    /\ samples = <<>>
    /\ everFound = FALSE
    /\ ioFailed = FALSE
    /\ loopStarted = FALSE
    /\ lastFound = FALSE
    /\ rowsSince = 0
    /\ sleepsSince = 0
    /\ sleptSince = 0

(***************************************************************************)
(* Steps of main.                                                          *)
(***************************************************************************)
\* the underlying writer receives the lines handed to it
Deliver(lines) ==
    IF sink = "stdout"
    THEN /\ stdoutOut' = stdoutOut \o lines
         /\ UNCHANGED fs
    ELSE /\ fs' = [fs EXCEPT ![path].lines = @ \o lines]
         /\ UNCHANGED stdoutOut

\* `?` on a failed sink operation: main returns the error
Fail ==
    /\ ret' = "Err"
    /\ pc' = "exit"
    /\ ioFailed' = TRUE

\* line 41: Args::parse(); clap rejects conflicting arguments and exits
Parse ==
    /\ pc = "parse"
    /\ IF Conflict(args)
       THEN /\ pc' = "done"
            /\ ret' = "Usage"
            /\ exitCode' = 2
       ELSE /\ pc' = "refresh0"
            /\ UNCHANGED <<ret, exitCode>>
    /\ UNCHANGED <<args, alive, sysProc, cur, fs, stdoutOut, sink, path, buf,
                   fs0, written, samples, everFound, ioFailed, loopStarted,
                   lastFound, rowsSince, sleepsSince, sleptSince>>

\* lines 43-44: System::new(); system.refresh_process(pid), result unused
FirstRefresh ==
    /\ pc = "refresh0"
    /\ IF alive
       THEN /\ \E m \in Readings : sysProc' = m
            /\ everFound' = TRUE
       ELSE /\ sysProc' = NoProc
            /\ UNCHANGED everFound
    /\ pc' = "open"
    /\ UNCHANGED <<args, ret, exitCode, alive, cur, fs, stdoutOut, sink, path,
                   buf, fs0, written, samples, ioFailed, loopStarted,
                   lastFound, rowsSince, sleepsSince, sleptSince>>

\* lines 46-48 and 67-84: writer_from_args, wrapped in a csv::Writer
Open ==
    /\ pc = "open"
    /\ IF args.stdout
       THEN /\ sink' = "stdout"
            /\ pc' = "header"
            /\ UNCHANGED <<fs, path, ret, ioFailed>>
       ELSE \/ /\ fs' = Truncated(fs, TargetPath(args.pid, args.output_file))
               /\ path' = TargetPath(args.pid, args.output_file)
               /\ sink' = "file"
               /\ pc' = "header"
               /\ UNCHANGED <<ret, ioFailed>>
            \/ /\ Fail
               /\ UNCHANGED <<fs, path, sink>>
    /\ UNCHANGED <<args, exitCode, alive, sysProc, cur, stdoutOut, buf, fs0,
                   written, samples, everFound, loopStarted, lastFound,
                   rowsSince, sleepsSince, sleptSince>>

\* line 50: writer.write_record(&["RES", "VIRT"])?
WriteHeader ==
    /\ pc = "header"
    /\ \/ /\ buf' = Append(buf, HeaderRecord)
          /\ written' = Append(written, HeaderRecord)
          /\ pc' = "loop"
          /\ UNCHANGED <<ret, ioFailed>>
       \/ /\ Fail
          /\ UNCHANGED <<buf, written>>
    /\ UNCHANGED <<args, exitCode, alive, sysProc, cur, fs, stdoutOut, sink,
                   path, fs0, samples, everFound, loopStarted, lastFound,
                   rowsSince, sleepsSince, sleptSince>>

\* variant: a vanished process ends the loop with an error
LoopRefresh_ErrOnExit ==
    /\ pc = "loop"
    /\ IF alive
       THEN /\ Len(samples) < MaxTicks
            /\ \E m \in Readings : sysProc' = m
            /\ everFound' = TRUE
            /\ pc' = "lookup"
            /\ UNCHANGED ret
       ELSE /\ sysProc' = NoProc
            /\ ret' = "Err"
            /\ pc' = "exit"
            /\ UNCHANGED everFound
    /\ loopStarted' = TRUE
    /\ rowsSince' = 0
    /\ sleepsSince' = 0
    /\ sleptSince' = 0
    /\ UNCHANGED <<args, exitCode, alive, cur, fs, stdoutOut, sink, path, buf,
                   fs0, written, samples, ioFailed, lastFound>>

\* line 52: while system.refresh_process(pid); line 64: Ok(()) when false
LoopRefresh ==
    /\ pc = "loop"
    /\ IF alive
       THEN /\ Len(samples) < MaxTicks
            /\ \E m \in Readings : sysProc' = m
            /\ everFound' = TRUE
            /\ pc' = "lookup"
            /\ UNCHANGED ret
       ELSE /\ sysProc' = NoProc
            /\ ret' = "Ok"
            /\ pc' = "exit"
            /\ UNCHANGED everFound
    /\ loopStarted' = TRUE
    /\ rowsSince' = 0
    /\ sleepsSince' = 0
    /\ sleptSince' = 0
    /\ UNCHANGED <<args, exitCode, alive, cur, fs, stdoutOut, sink, path, buf,
                   fs0, written, samples, ioFailed, lastFound>>

\* line 53: if let Some(process) = system.process(pid); no else branch
Lookup ==
    /\ pc = "lookup"
    /\ \E p \in {sysProc, NoProc} :
          /\ cur' = p
          /\ IF p # NoProc
             THEN /\ samples' = Append(samples, p)
                  /\ lastFound' = TRUE
                  /\ pc' = "write_row"
             ELSE /\ lastFound' = FALSE
                  /\ pc' = "loop"
                  /\ UNCHANGED samples
    /\ UNCHANGED <<args, ret, exitCode, alive, sysProc, fs, stdoutOut, sink,
                   path, buf, fs0, written, everFound, ioFailed, loopStarted,
                   rowsSince, sleepsSince, sleptSince>>

\* variant: the two columns are swapped
RowOf_Swapped(process) == Record(to_string(process[2]), to_string(process[1]))

\* lines 54-55: process.memory(), process.virtual_memory(), as strings
RowOf(process) == Record(to_string(process[1]), to_string(process[2]))

\* lines 56-58: writer.write_record(&[memory, virtual_memory])?
WriteRow ==
    /\ pc = "write_row"
    /\ \/ /\ buf' = Append(buf, RowOf(cur))
          /\ written' = Append(written, RowOf(cur))
          /\ rowsSince' = rowsSince + 1
          /\ pc' = "flush"
          /\ UNCHANGED <<ret, ioFailed>>
       \/ /\ Fail
          /\ UNCHANGED <<buf, written, rowsSince>>
    /\ UNCHANGED <<args, exitCode, alive, sysProc, cur, fs, stdoutOut, sink,
                   path, fs0, samples, everFound, loopStarted, lastFound,
                   sleepsSince, sleptSince>>

\* variant: the flush after the row is missing
Flush_Skipped ==
    /\ pc = "flush"
    /\ pc' = "sleep"
    /\ UNCHANGED <<args, ret, exitCode, alive, sysProc, cur, fs, stdoutOut,
                   sink, path, buf, fs0, written, samples, everFound,
                   ioFailed, loopStarted, lastFound, rowsSince, sleepsSince,
                   sleptSince>>

\* line 59: writer.flush()?
Flush ==
    /\ pc = "flush"
    /\ \/ /\ Deliver(buf)
          /\ buf' = <<>>
          /\ pc' = "sleep"
          /\ UNCHANGED <<ret, ioFailed>>
       \/ /\ Fail
          /\ UNCHANGED <<buf, fs, stdoutOut>>
    /\ UNCHANGED <<args, exitCode, alive, sysProc, cur, sink, path, fs0,
                   written, samples, everFound, loopStarted, lastFound,
                   rowsSince, sleepsSince, sleptSince>>

\* variant: the loop does not sleep
Sleep_Skipped ==
    /\ pc = "sleep"
    /\ pc' = "loop"
    /\ UNCHANGED <<args, ret, exitCode, alive, sysProc, cur, fs, stdoutOut,
                   sink, path, buf, fs0, written, samples, everFound,
                   ioFailed, loopStarted, lastFound, rowsSince, sleepsSince,
                   sleptSince>>

\* line 60: thread::sleep(Duration::from_millis(interval_ms))
Sleep ==
    /\ pc = "sleep"
    /\ sleepsSince' = sleepsSince + 1
    /\ sleptSince' = sleptSince + args.interval_ms
    /\ pc' = "loop"
    /\ UNCHANGED <<args, ret, exitCode, alive, sysProc, cur, fs, stdoutOut,
                   sink, path, buf, fs0, written, samples, everFound,
                   ioFailed, loopStarted, lastFound, rowsSince>>

\* variant: the program exits without dropping the writer
Drop_NoFlush ==
    /\ pc = "exit"
    /\ pc' = "done"
    /\ exitCode' = IF ret = "Ok" THEN 0 ELSE 1
    /\ UNCHANGED <<args, ret, alive, sysProc, cur, fs, stdoutOut, sink, path,
                   buf, fs0, written, samples, everFound, ioFailed,
                   loopStarted, lastFound, rowsSince, sleepsSince, sleptSince>>

\* main returns (lines 48, 50, 58, 59, 64): the csv::Writer is dropped,
\* which flushes its buffer and ignores the error; then the process exits
Drop ==
    /\ pc = "exit"
    /\ IF sink # "none" /\ buf # <<>>
       THEN \/ /\ Deliver(buf)
               /\ buf' = <<>>
               /\ UNCHANGED ioFailed
            \/ /\ ioFailed' = TRUE
               /\ UNCHANGED <<buf, fs, stdoutOut>>
       ELSE UNCHANGED <<buf, fs, stdoutOut, ioFailed>>
    /\ pc' = "done"
    /\ exitCode' = IF ret = "Ok" THEN 0 ELSE 1
    /\ UNCHANGED <<args, ret, alive, sysProc, cur, sink, path, fs0, written,
                   samples, everFound, loopStarted, lastFound, rowsSince,
                   sleepsSince, sleptSince>>

(***************************************************************************)
(* The environment: the target process exits; the tool itself is killed.   *)
(***************************************************************************)
Running == pc \notin {"done", "killed"}

ProcessExit ==
    /\ Running
    /\ alive
    /\ alive' = FALSE
    /\ UNCHANGED progVars

\* a signal ends the tool: no destructor runs, the buffer is lost
Kill ==
    /\ Running
    /\ pc' = "killed"
    /\ exitCode' = 137
    /\ UNCHANGED <<args, ret, alive, sysProc, cur, fs, stdoutOut, sink, path,
                   buf, fs0, written, samples, everFound, ioFailed,
                   loopStarted, lastFound, rowsSince, sleepsSince, sleptSince>>

Program ==
    \/ Parse
    \/ FirstRefresh
    \/ Open
    \/ WriteHeader
    \/ LoopRefresh
    \/ Lookup
    \/ WriteRow
    \/ Flush
    \/ Sleep
    \/ Drop

Next ==
    \/ Parse
    \/ FirstRefresh
    \/ Open
    \/ WriteHeader
    \/ LoopRefresh
    \/ Lookup
    \/ WriteRow
    \/ Flush
    \/ Sleep
    \/ Drop
    \/ ProcessExit
    \/ Kill

Spec == Init /\ [][Next]_vars

\* the program is the only thread and keeps running until it returns
FairSpec == Spec /\ WF_vars(Program)

(***************************************************************************)
(* Properties.                                                             *)
(***************************************************************************)
\* the path the documentation promises for each target pid
ExpectedPath ==
    IF args.output_file # NoPath THEN args.output_file
    ELSE IF args.pid = 7 THEN "memprobe-7.csv" ELSE "memprobe-42.csv"

\* --stdout and --output-file were both given
BothFlags == args.stdout /\ args.output_file # NoPath

\* the line the documentation promises for each reading
ExpectedRow(r) == IF r = <<0, 10>> THEN "0,10" ELSE "12,305"

\* C1: when no refresh_process call ever finds the process, and neither
\* the arguments nor the sink raise an error, the program writes the header
\* RES,VIRT and no data row, exits with code 0, and at termination the sink
\* holds exactly the header line.
C1_NoProcessHeaderOnly ==
    /\ ~everFound => (samples = <<>> /\ Len(written) <= 1)
    /\ (pc = "done" /\ ~everFound /\ ~ioFailed /\ ~BothFlags) =>
          /\ exitCode = 0
          /\ written = <<"RES,VIRT">>
          /\ Durable = <<"RES,VIRT">>
          /\ buf = <<>>

C1_Witness ==
    /\ pc = "done"
    /\ ~everFound
    /\ ~ioFailed
    /\ sink = "file"
    /\ exitCode = 0
    /\ fs[path].lines = <<"RES,VIRT">>

\* C2: when the loop is about to perform its first refresh, exactly one
\* header row has been written and it has reached the sink, none of it
\* being held in the writer's buffer.
C2_HeaderFlushedBeforeLoop ==
    (pc = "loop" /\ ~loopStarted) =>
        /\ written = <<"RES,VIRT">>
        /\ Durable = <<"RES,VIRT">>
        /\ buf = <<>>

\* C3: whenever the program is in its sleep step, every row written so far
\* (the header and all data rows) has reached the sink and the writer's
\* buffer is empty.
C3_FlushedBeforeSleep ==
    pc = "sleep" =>
        /\ Len(written) >= 2
        /\ Durable = written
        /\ buf = <<>>

C3_Witness ==
    /\ pc = "sleep"
    /\ Len(Durable) = 3
    /\ sink = "file"

\* C4: the output is the header followed by the rows of the readings taken
\* at the ticks that found the process, the k-th row holding the k-th
\* reading; what reached the sink is a prefix of what was written; and both
\* only grow by appending.
C4_HeaderThenSamplesInOrder ==
    /\ [](written # <<>> =>
             /\ written[1] = "RES,VIRT"
             /\ Len(written) - 1 <= Len(samples)
             /\ Len(samples) <= Len(written)
             /\ \A k \in 1..(Len(written) - 1) :
                    written[k + 1] = ExpectedRow(samples[k]))
    /\ [](IsPrefix(Durable, written))
    /\ [][IsPrefix(written, written') /\ IsPrefix(Durable, Durable')]_vars

C4_Witness ==
    /\ Len(Durable) = 3
    /\ samples = <<(<<12, 305>>), (<<0, 10>>)>>
    /\ Durable = <<"RES,VIRT", "12,305", "0,10">>

\* C5: once an operation on the sink has failed the program does nothing
\* but terminate, and it terminates with a non-zero exit code.
C5_SinkFailureIsFatal ==
    /\ ioFailed => pc \in {"exit", "done", "killed"}
    /\ (ioFailed /\ pc = "done") => exitCode # 0

\* C6: with both --stdout and --output-file the program ends with a usage
\* error and a non-zero exit code; no file is created or truncated, nothing
\* is written, and no refresh or sample is taken.
C6_ConflictRejectedFirst ==
    BothFlags =>
        /\ pc \in {"parse", "done", "killed"}
        /\ fs = fs0
        /\ stdoutOut = <<>>
        /\ sink = "none"
        /\ written = <<>>
        /\ samples = <<>>
        /\ sysProc = NoProc
        /\ ~everFound
        /\ pc = "done" => (exitCode # 0 /\ ret = "Usage")

C6_Witness ==
    /\ args.stdout
    /\ args.output_file = "out.csv"
    /\ fs0["out.csv"] = OldFile
    /\ pc = "done"
    /\ exitCode = 2

\* C7: with --stdout the sink is the standard output and the file system
\* is untouched; otherwise exactly one file is opened, at the explicit
\* path or else at memprobe-<pid>.csv, it exists and was truncated (it
\* holds only rows of this run), and no other path is touched.
C7_SinkSelection ==
    /\ sink = "none" => fs = fs0
    /\ sink # "none" =>
          IF args.stdout
          THEN sink = "stdout" /\ fs = fs0
          ELSE /\ sink = "file"
               /\ path = ExpectedPath
               /\ fs[path].exists
               /\ IsPrefix(fs[path].lines, written)
               /\ pc = "header" => fs[path].lines = <<>>
               /\ \A q \in Paths \ {path} : fs[q] = fs0[q]

C7_Witness ==
    /\ pc = "header"
    /\ sink = "file"
    /\ args.output_file = NoPath
    /\ args.pid = 42
    /\ path = "memprobe-42.csv"
    /\ fs0[path] = OldFile
    /\ fs[path].lines = <<>>

\* C8: main returns Ok exactly at a loop refresh that reports the process
\* as gone, and that step writes no row; exit code 0 is reached only after
\* that; and once the process is gone the program eventually terminates
\* with exit code 0 unless a sink operation fails, the arguments conflict
\* or the tool is killed.
C8_ExitWhenProcessGone ==
    /\ [][(pc = "loop" /\ pc' \notin {"loop", "killed"}) =>
             IF alive
             THEN pc' = "lookup" /\ ret' = "none"
             ELSE /\ pc' = "exit"
                  /\ ret' = "Ok"
                  /\ written' = written
                  /\ Durable' = Durable]_vars
    /\ [][(ret' = "Ok" /\ ret # "Ok") => (pc = "loop" /\ ~alive)]_vars
    /\ [](exitCode = 0 => (pc = "done" /\ ret = "Ok"))
    /\ (~alive) ~> \/ pc = "done" /\ exitCode = 0
                   \/ ioFailed
                   \/ BothFlags
                   \/ pc = "killed"

C8_Witness ==
    /\ pc = "done"
    /\ exitCode = 0
    /\ Len(samples) = 2
    /\ Len(Durable) = 3

\* C9 as stated: when the loop is about to refresh again, the tick that
\* just ended wrote exactly one row and slept exactly once, for the
\* configured interval.
C9_OneRowOneSleepPerTick ==
    (pc = "loop" /\ loopStarted) =>
        /\ rowsSince = 1
        /\ sleepsSince = 1
        /\ sleptSince = args.interval_ms

\* C9 amended: a tick whose lookup returned the process wrote exactly one
\* row and slept exactly once, for the configured interval; a tick whose
\* lookup returned nothing wrote no row and did not sleep.
C9_OneRowOneSleepPerFoundTick ==
    /\ pc \in {"write_row", "flush", "sleep"} => lastFound
    /\ (pc = "loop" /\ loopStarted) =>
          IF lastFound
          THEN rowsSince = 1 /\ sleepsSince = 1 /\ sleptSince = args.interval_ms
          ELSE rowsSince = 0 /\ sleepsSince = 0 /\ sleptSince = 0

C9_Witness ==
    /\ pc = "loop"
    /\ loopStarted
    /\ lastFound
    /\ rowsSince = 1
    /\ sleptSince = 250
    /\ Len(samples) = 2

\* C10: when the tool is killed, at most one written row is missing from
\* the sink, and the header is not the missing one.
C10_KillLosesAtMostInflightRow ==
    (pc = "killed" /\ sink # "none") =>
        /\ IsPrefix(Durable, written)
        /\ Len(written) - Len(Durable) <= 1
        /\ written # <<>> => Durable # <<>>

====
